---- MODULE Spec2Model ----
(***************************************************************************)
(* Anima core: one managed project with its wake scheduler, its iteration  *)
(* engine and the two persisted files state.json / milestones/{id}.json.   *)
(* The engine is described in the repository by its design documents       *)
(* (M3/M4 iteration loop, storage.md, M5 git integration / human           *)
(* acceptance); every action below is the translation of one step of       *)
(* those documents.  Projects are independent, so one project is modelled. *)
(* The registry of managed projects is code: electron/main/store.ts and     *)
(* ipc.ts with the renderer's ProjectsProvider (specification              *)
(* SpecRegistry).  The event bus is modelled as worded (SpecBus).           *)
(***************************************************************************)
EXTENDS Integers, Sequences, FiniteSets, TLC

\* ---------------------------------------------------------------- bounds
MaxTime == 2            \* the clock runs over 0..MaxTime
MaxDelay == 2           \* "try again in N minutes": N in 1..MaxDelay
MaxRejections == 4      \* cap of consecutive_rejections in the guards
MaxIterations == 2      \* config.json max_iterations_per_milestone of the run
RoundsCap == MaxIterations + 1   \* cap of iteration_count in the guards

\* ------------------------------------------------------ program constants
RejectionThreshold == 3 \* consecutive_rejections >= 3 pauses the loop
DefaultBackoff == 60    \* no reset time found: wait 60 minutes

MilestoneIds == {"m1"}
NoMilestone == "null"
NoTime == -1
NoPending == [kind |-> "none"]

ProjectStatus == {"sleeping", "checking", "awake", "paused", "rate_limited"}
MilestoneStatus == {"draft", "ready", "in_progress", "awaiting_review",
                    "completed", "cancelled", "failed"}
ActiveStatus == {"awake", "paused", "rate_limited"}
RoundPhases == {"developer", "acceptor", "final_review"}
AgentRoles == {"developer", "acceptor"}

VARIABLES
    state,        \* .anima/state.json: status, current_milestone, rate_limit_reset_at
    milestones,   \* .anima/milestones/{id}.json, one record per id
    order,        \* .anima/milestones/order.json
    pending,      \* the state.json half of a two-file update whose milestone half is written
    pc,           \* position of the scheduler / iteration engine (in memory)
    now,          \* wall clock
    mainHead,     \* head commit of the integration branch
    tags,         \* milestone ids m with a tag milestone-{m}
    lastEvent,    \* kind of the last event shown to the UI
    config,       \* .anima/config.json: max_iterations_per_milestone
    sessions,     \* the two agent processes of the project: closed, idle or busy
    branches,     \* branch milestone/{id}: none, base (at base_commit) or ahead
    \* the application registry (electron/main/store.ts, ipc.ts, index.ts)
    configFile,   \* userData/config.json: absent, or the text it holds
    uuids,        \* number of ids randomUUID() has handed out
    dialogs,      \* the open directory dialogs of pending add-project calls
    channel,      \* messages to the renderer that are sent and not yet delivered
    rendererProjects, \* `projects` of the renderer's ProjectsProvider
    fetch,        \* the get-projects call the renderer makes when it mounts
    trayProjects, \* the list the tray menu was last built from
    app,          \* the main process: up or down
    \* the event bus of one project
    emitted,      \* the events emitted so far, in emission order
    queues,       \* per subscriber: the events buffered for it
    delivered     \* per subscriber: the events it has consumed, in order

engineVars == <<state, milestones, order, pending, pc, now, mainHead, tags,
                lastEvent, config, sessions, branches>>
registryVars == <<configFile, uuids, dialogs, channel, rendererProjects, fetch,
                  trayProjects, app>>
busVars == <<emitted, queues, delivered>>
vars == <<engineVars, registryVars, busVars>>

\* config.json does not exist yet
Absent == [exists |-> FALSE, text |-> <<>>]

Subscribers == {"monitor", "tray"}

\* nothing emitted yet
BusAtRest ==
    /\ emitted = <<>>
    /\ queues = [sub \in Subscribers |-> <<>>]
    /\ delivered = [sub \in Subscribers |-> <<>>]

\* the application before its first launch: nothing registered, no process
RegistryAtRest ==
    /\ configFile = Absent
    /\ uuids = 0
    /\ dialogs = <<>>
    /\ channel = <<>>
    /\ rendererProjects = <<>>
    /\ fetch = "none"
    /\ trayProjects = <<>>
    /\ app = "down"

\* ------------------------------------------------------------- persistence
\* state.json as created for a project
InitialState ==
    [status |-> "sleeping", current_milestone |-> NoMilestone,
     rate_limit_reset_at |-> NoTime]

\* milestones/{id}.json as created by the milestone creation flow
NewMilestone(review) ==
    [status |-> "draft", requires_human_review |-> review,
     base_commit |-> NoTime, iteration_count |-> 0,
     consecutive_rejections |-> 0]

\* no agent process is running
CloseAll == [a \in AgentRoles |-> "closed"]

\* the two persistent agent processes of the milestone are started (a process
\* that is alive is reused)
Launch(ss) == [a \in AgentRoles |-> IF ss[a] = "closed" THEN "idle" ELSE ss[a]]

\* a plausible slip: the next prompt is sent without waiting for the reply
AwaitReplySkipped(ss, a) == ss

\* the engine waits for the reply of agent a: the agent is idle again
AwaitReply(ss, a) == [ss EXCEPT ![a] = IF @ = "busy" THEN "idle" ELSE @]

\* a plausible slip: the prompt is written to both processes
DispatchBoth(ss, a) == [b \in AgentRoles |-> "busy"]

\* a prompt is sent to agent a
Dispatch(ss, a) == [ss EXCEPT ![a] = "busy"]

\* a plausible slip: the processes are left running
StopSessionsSkipped(ss) == ss

\* pause, cancel, fatal error: the wait of the round in flight is cancelled
\* and the agent sessions are closed (or killed after a grace period)
StopSessions(ss) == CloseAll

\* sequences over MilestoneIds without repetition
OrderLists ==
    {<<>>} \cup { <<a>> : a \in MilestoneIds }
           \cup { <<a, b>> : <<a, b>> \in { p \in MilestoneIds \X MilestoneIds : p[1] # p[2] } }

Init ==
    /\ state = InitialState
    /\ \E st \in [MilestoneIds -> {"draft", "ready"}], rv \in [MilestoneIds -> BOOLEAN] :
          milestones = [m \in MilestoneIds |->
                           [NewMilestone(rv[m]) EXCEPT !.status = st[m]]]
    /\ order \in OrderLists
    /\ pending = NoPending
    /\ pc = "idle"
    /\ now = 0
    /\ mainHead = 1
    /\ tags = {}
    /\ lastEvent = "none"
    /\ config \in [max_iterations_per_milestone : 0..MaxIterations]
    /\ sessions = CloseAll
    /\ branches = [m \in MilestoneIds |-> "none"]
    /\ RegistryAtRest
    /\ BusAtRest

\* state.json with a new status; rate_limit_reset_at is kept only while the
\* status is rate_limited
WithStatus(st, s) ==
    [st EXCEPT !.status = s,
               !.rate_limit_reset_at = IF s = "rate_limited" THEN @ ELSE NoTime]

\* The state.json half of a two-file update: the milestone file is written
\* first, then state.json; afterwards the engine goes on at position `next`.
StateWrite(st, next, ev) ==
    [kind |-> "state", state |-> st, next |-> next, event |-> ev]

\* second write of the same transaction: state.json
CommitState ==
    /\ pending # NoPending
    /\ pc # "down"
    /\ state' = pending.state
    /\ pc' = pending.next
    /\ lastEvent' = pending.event
    /\ pending' = NoPending
    \* the agent processes are recycled after the milestone has ended
    /\ sessions' = IF pending.next = "idle" THEN CloseAll ELSE sessions
    /\ UNCHANGED <<milestones, order, now, mainHead, tags, config, branches>>
    /\ UNCHANGED <<registryVars, busVars>>

\* ------------------------------------------------------------ wake scheduler
\* sleeping -- wake time reached --> checking
WakeTick ==
    /\ pc = "idle" /\ pending = NoPending
    /\ state.status = "sleeping"
    /\ state' = WithStatus(state, "checking")
    /\ lastEvent' = "wake"
    /\ UNCHANGED <<milestones, order, pending, pc,
                   now, mainHead, tags, config, sessions, branches>>
    /\ UNCHANGED <<registryVars, busVars>>

\* a plausible slip: the head of order.json is taken without the status filter
FirstReadyHead(ord, ms) ==
    IF ord # <<>> /\ ord[1] \in DOMAIN ms THEN ord[1] ELSE NoMilestone

\* first id of order.json whose milestone is ready (NoMilestone when none)
FirstReady(ord, ms) ==
    LET idx == { i \in 1..Len(ord) :
                    ord[i] \in DOMAIN ms /\ ms[ord[i]].status = "ready" }
    IN  IF idx = {} THEN NoMilestone
        ELSE ord[CHOOSE i \in idx : \A j \in idx : i <= j]

\* sleeping -- user "Wake Now" --> checking
\* Wake Now applies to a sleeping project; while a check runs a further
\* trigger is taken up by that check
WakeNowApplies ==
    /\ pc = "idle" /\ pending = NoPending
    /\ state.status = "sleeping"

WakeNow ==
    /\ WakeNowApplies
    /\ state' = WithStatus(state, "checking")
    /\ lastEvent' = "wake_now"
    /\ UNCHANGED <<milestones, order, pending, pc,
                   now, mainHead, tags, config, sessions, branches>>
    /\ UNCHANGED <<registryVars, busVars>>

\* checking, a ready milestone found: branch milestone/{id} is created from the
\* integration head, the milestone becomes in_progress with its base_commit,
\* then state.json becomes awake / current_milestone = id and the first
\* developer prompt is sent.
\* a plausible slip: the status is written, the base commit is not recorded
OnPickUpWithoutBase(m, head) == [m EXCEPT !.status = "in_progress"]

\* milestones/{id}.json of the milestone picked up: in_progress, base_commit
OnPickUp(m, head) ==
    [m EXCEPT !.status = "in_progress", !.base_commit = head]

CheckingPickUp ==
    /\ pc = "idle" /\ pending = NoPending
    /\ state.status = "checking"
    /\ LET m == FirstReady(order, milestones) IN
         /\ m # NoMilestone
         /\ branches' = [branches EXCEPT ![m] = "base"]
         /\ milestones' = [milestones EXCEPT ![m] = OnPickUp(@, mainHead)]
         /\ pending' = StateWrite([WithStatus(state, "awake") EXCEPT !.current_milestone = m],
                                  "round_start", "picked_up")
    /\ lastEvent' = "milestone_in_progress"
    /\ UNCHANGED <<state, order, pc, now, mainHead, tags, config, sessions>>
    /\ UNCHANGED <<registryVars, busVars>>

\* checking, no ready milestone: back to sleeping
CheckingNoReady ==
    /\ pc = "idle" /\ pending = NoPending
    /\ state.status = "checking"
    /\ FirstReady(order, milestones) = NoMilestone
    /\ state' = WithStatus(state, "sleeping")
    /\ lastEvent' = "no_ready"
    /\ UNCHANGED <<milestones, order, pending, pc,
                   now, mainHead, tags, config, sessions, branches>>
    /\ UNCHANGED <<registryVars, busVars>>

\* the user marks a draft milestone ready; it is appended to order.json
MarkReady(m) ==
    /\ pc # "down" /\ pending = NoPending
    /\ milestones[m].status = "draft"
    /\ milestones' = [milestones EXCEPT ![m].status = "ready"]
    /\ order' = IF \E i \in 1..Len(order) : order[i] = m THEN order
                ELSE Append(order, m)
    /\ UNCHANGED <<state, pending, pc, now, mainHead,
                   tags, lastEvent, config, sessions, branches>>
    /\ UNCHANGED <<registryVars, busVars>>

\* the user takes a ready milestone back to draft ("cancel ready")
UnmarkReady(m) ==
    /\ pc # "down" /\ pending = NoPending
    /\ milestones[m].status = "ready"
    /\ milestones' = [milestones EXCEPT ![m].status = "draft"]
    /\ UNCHANGED <<state, order, pending, pc, now, mainHead,
                   tags, lastEvent, config, sessions, branches>>
    /\ UNCHANGED <<registryVars, busVars>>

\* a plausible slip: the delete button is offered for every status
DeletableAlways(m) == TRUE

\* draft and ready milestones can be deleted; from in_progress on a milestone
\* can only be cancelled
Deletable(m) == m.status \in {"draft", "ready"}

\* the user deletes a milestone: its files are removed; order.json is written
\* by the sorting of the list only and may keep the id
DeleteMilestone(m) ==
    /\ pc # "down" /\ pending = NoPending
    /\ Deletable(milestones[m])
    /\ milestones' = [k \in DOMAIN milestones \ {m} |-> milestones[k]]
    /\ UNCHANGED <<state, order, pending, pc, now, mainHead,
                   tags, lastEvent, config, sessions, branches>>
    /\ UNCHANGED <<registryVars, busVars>>

\* ---------------------------------------------------------- iteration engine
Cur == state.current_milestone

\* the engine is waiting for the reply of an agent on the current milestone
InRound ==
    /\ pending = NoPending
    /\ pc \in RoundPhases
    /\ state.status = "awake"
    /\ Cur # NoMilestone

\* what the developer prompt in flight carries besides the fixed context: the
\* acceptor's rejection reason, the criteria the final review found missing,
\* the human feedback, or the recovery context after a restart
DeveloperFeedback ==
    IF pc # "developer" THEN "none"
    ELSE CASE lastEvent = "rejected" -> "rejection_reason"
           [] lastEvent = "final_rejected" -> "missing_criteria"
           [] lastEvent = "timeout" -> "timeout_reason"
           [] lastEvent \in {"resumed", "review_rejected"} -> "human_feedback"
           [] lastEvent = "started" -> "recovery_context"
           [] OTHER -> "none"

\* a plausible slip: the limit is tested against the rounds already counted
RoundExceedsMaxStrict(m) ==
    m.iteration_count > config.max_iterations_per_milestone

\* the round about to start has the number iteration_count + 1; it exceeds
\* max_iterations_per_milestone
RoundExceedsMax(m) ==
    m.iteration_count + 1 > config.max_iterations_per_milestone

\* top of the scheduler loop: beyond max_iterations_per_milestone the scheduler
\* pauses for a human; otherwise step 1/2, the developer prompt is built and
\* sent (the two agent processes are started when they are not running)
StartRound ==
    /\ pc = "round_start" /\ pending = NoPending
    /\ state.status = "awake"
    /\ Cur \in DOMAIN milestones
    /\ IF RoundExceedsMax(milestones[Cur])
       THEN /\ state' = WithStatus(state, "paused")
            /\ pc' = "waiting_human"
            /\ lastEvent' = "max_iterations"
            /\ sessions' = sessions
       ELSE /\ sessions' = Dispatch(Launch(sessions), "developer")
            /\ pc' = "developer"
            /\ UNCHANGED <<state, lastEvent>>
    /\ UNCHANGED <<milestones, order, pending, now, mainHead, tags,
                   config, branches>>
    /\ UNCHANGED <<registryVars, busVars>>

\* step 3/4: the developer has committed and replied; the implementation
\* report goes to the acceptor
DeveloperReport ==
    /\ InRound /\ pc = "developer"
    /\ sessions' = Dispatch(AwaitReply(sessions, "developer"), "acceptor")
    /\ branches' = [branches EXCEPT ![Cur] = "ahead"]
    /\ pc' = "acceptor"
    /\ lastEvent' = "report"
    /\ UNCHANGED <<state, milestones, order, pending, now,
                   mainHead, tags, config>>
    /\ UNCHANGED <<registryVars, busVars>>

\* step 3: ALL_FEATURES_COMPLETE starts the final overall acceptance
DeveloperAllComplete ==
    /\ InRound /\ pc = "developer"
    /\ sessions' = Dispatch(AwaitReply(sessions, "developer"), "acceptor")
    /\ pc' = "final_review"
    /\ lastEvent' = "all_features_complete"
    /\ UNCHANGED <<state, milestones, order, pending, now,
                   mainHead, tags, config, branches>>
    /\ UNCHANGED <<registryVars, busVars>>

\* step 2 and "timeout and runaway protection": a single agent call timing out
\* counts as a failed round, consecutive_rejections += 1, next round
OnTimeout(m) ==
    [m EXCEPT !.consecutive_rejections = @ + 1]

AgentTimeout ==
    /\ InRound
    /\ milestones[Cur].consecutive_rejections < MaxRejections
    /\ milestones' = [milestones EXCEPT ![Cur] = OnTimeout(@)]
    /\ sessions' = Dispatch(AwaitReply(AwaitReply(sessions, "developer"), "acceptor"),
                            "developer")
    /\ pc' = "developer"
    /\ lastEvent' = "timeout"
    /\ UNCHANGED <<state, order, pending, now, mainHead, tags, config, branches>>
    /\ UNCHANGED <<registryVars, busVars>>

\* a plausible slip: the round is counted but the rejection count is kept
OnAcceptedKeepsRejections(m) ==
    [m EXCEPT !.iteration_count = @ + 1]

\* step 5, ACCEPTED: consecutive_rejections = 0, iteration_count += 1,
\* milestone JSON written back, next round
OnAccepted(m) ==
    [m EXCEPT !.consecutive_rejections = 0,
              !.iteration_count = @ + 1]

AcceptorAccepted ==
    /\ InRound /\ pc = "acceptor"
    /\ milestones[Cur].iteration_count < RoundsCap
    /\ milestones' = [milestones EXCEPT ![Cur] = OnAccepted(@)]
    /\ sessions' = AwaitReply(sessions, "acceptor")
    /\ lastEvent' = "accepted"
    /\ pc' = "round_start"
    /\ UNCHANGED <<state, order, pending, now, mainHead, tags, config, branches>>
    /\ UNCHANGED <<registryVars, busVars>>

\* step 5, REJECTED: consecutive_rejections += 1; below 3 the reason goes back
\* to the developer, at 3 or more state.status becomes paused and the loop stops
OnRejected(m) ==
    [m EXCEPT !.consecutive_rejections = @ + 1]

AcceptorRejected ==
    /\ InRound /\ pc = "acceptor"
    /\ milestones[Cur].consecutive_rejections < MaxRejections
    /\ milestones' = [milestones EXCEPT ![Cur] = OnRejected(@)]
    /\ lastEvent' = "rejected"
    /\ IF milestones'[Cur].consecutive_rejections < RejectionThreshold
       THEN /\ pending' = pending
            /\ sessions' = Dispatch(AwaitReply(sessions, "acceptor"), "developer")
            /\ pc' = "developer"
       ELSE /\ pending' = StateWrite(WithStatus(state, "paused"),
                                     "waiting_human", "paused")
            /\ sessions' = AwaitReply(sessions, "acceptor")
            /\ pc' = pc
    /\ UNCHANGED <<state, order, now, mainHead, tags, config, branches>>
    /\ UNCHANGED <<registryVars, busVars>>

\* final acceptance, ACCEPTED: the milestone becomes completed (merge + tag) or
\* awaiting_review; state.json becomes sleeping with current_milestone null
\* a plausible slip: the mark "needs human acceptance" is not looked at
NeedsReviewIgnored(m) == FALSE

NeedsReview(m) == m.requires_human_review

OnFinalAccepted(m) ==
    [m EXCEPT !.status = IF NeedsReview(m) THEN "awaiting_review"
                         ELSE "completed"]

\* the acceptor's final verdict ACCEPTED has been read
FinalAccepted ==
    /\ InRound /\ pc = "final_review"
    /\ sessions' = AwaitReply(sessions, "acceptor")
    /\ pc' = "finalizing"
    /\ lastEvent' = "final_accepted"
    /\ UNCHANGED <<state, milestones, order, pending, now, mainHead, tags,
                   config, branches>>
    /\ UNCHANGED <<registryVars, busVars>>

\* outcomes of "merge milestone/{id} into main, then tag milestone-{id}"
GitResults == {"ok", "merge_failed", "tag_failed"}

\* head of main after the merge + tag flow
MergedHead(head, res) == IF res = "merge_failed" THEN head ELSE head + 1

\* tags after the merge + tag flow
TagsAfter(tg, m, res) == IF res = "ok" THEN tg \cup {m} ELSE tg

\* the milestone file gets its final status; a status becoming completed
\* triggers the merge + tag flow; then state.json becomes sleeping with
\* current_milestone null and the loop is left
Finalization(res) ==
    /\ pc = "finalizing" /\ pending = NoPending
    /\ state.status = "awake"
    /\ Cur \in DOMAIN milestones
    /\ milestones' = [milestones EXCEPT ![Cur] = OnFinalAccepted(@)]
    /\ IF milestones'[Cur].status = "completed"
       THEN /\ mainHead' = MergedHead(mainHead, res)
            /\ tags' = TagsAfter(tags, Cur, res)
            /\ lastEvent' = IF res = "ok" THEN "merged" ELSE res
       ELSE /\ res = "ok"
            /\ lastEvent' = "awaiting_review"
            /\ UNCHANGED <<mainHead, tags>>
    /\ pending' = StateWrite([WithStatus(state, "sleeping") EXCEPT !.current_milestone = NoMilestone],
                             "idle", "milestone_done")
    /\ UNCHANGED <<state, order, pc, now, config, sessions, branches>>
    /\ UNCHANGED <<registryVars, busVars>>

\* a plausible slip: the final-review rejection is counted like a per-round one
OnFinalRejectedCounted(m) ==
    [m EXCEPT !.consecutive_rejections = @ + 1]

\* final acceptance, REJECTED: the missing criteria go back to the developer;
\* this rejection is not counted in consecutive_rejections
OnFinalRejected(m) == m

FinalRejected ==
    /\ InRound /\ pc = "final_review"
    /\ milestones' = [milestones EXCEPT ![Cur] = OnFinalRejected(@)]
    /\ sessions' = Dispatch(AwaitReply(sessions, "acceptor"), "developer")
    /\ pc' = "developer"
    /\ lastEvent' = "final_rejected"
    /\ UNCHANGED <<state, order, pending, now, mainHead, tags, config, branches>>
    /\ UNCHANGED <<registryVars, busVars>>

\* ------------------------------------------------------------ API quota limit
\* reset time taken from the error text ("try again in d minutes"), or the
\* default of 60 minutes when none can be extracted (d = 0)
ResetTime(d) == IF d = 0 THEN now + DefaultBackoff ELSE now + d

\* state.json on a quota error: rate_limited with rate_limit_reset_at
OnQuota(st, d) ==
    [st EXCEPT !.status = "rate_limited", !.rate_limit_reset_at = ResetTime(d)]

\* a plausible slip: the interrupted round is counted as a failed round
OnQuotaCountsRejection(m) ==
    [m EXCEPT !.consecutive_rejections = @ + 1]

\* milestones/{id}.json on a quota error: kept as it is (in_progress, counters)
OnQuotaMilestone(m) == m

\* a quota / rate-limit error is recognised in the output of the agent in turn;
\* the loop is suspended and a timer is scheduled for the reset time
QuotaDetected(d) ==
    /\ InRound
    /\ state' = OnQuota(state, d)
    /\ milestones' = [milestones EXCEPT ![Cur] = OnQuotaMilestone(@)]
    /\ sessions' = AwaitReply(AwaitReply(sessions, "developer"), "acceptor")
    /\ pc' = "quota_wait"
    /\ lastEvent' = "quota"
    /\ UNCHANGED <<order, pending, now, mainHead, tags, config, branches>>
    /\ UNCHANGED <<registryVars, busVars>>

\* the reset timer may fire once the reset time is reached
TimerDue(st) == now >= st.rate_limit_reset_at

\* the timer fires: the project is woken again, the scheduler runs a checking
QuotaTimerFire ==
    /\ pc = "quota_wait" /\ pending = NoPending
    /\ state.status = "rate_limited"
    /\ TimerDue(state)
    /\ state' = WithStatus(state, "checking")
    /\ pc' = "idle"
    /\ lastEvent' = "quota_restored"
    /\ UNCHANGED <<milestones, order, pending, now,
                   mainHead, tags, config, sessions, branches>>
    /\ UNCHANGED <<registryVars, busVars>>

\* time passes; the clock is read only to arm and to fire the reset timer, so
\* its progress is followed while a reset time is pending
Tick ==
    /\ state.status = "rate_limited"
    /\ now < MaxTime
    /\ now' = now + 1
    /\ UNCHANGED <<state, milestones, order, pending, pc, mainHead, tags, lastEvent,
                   config, sessions, branches>>
    /\ UNCHANGED <<registryVars, busVars>>

\* ------------------------------------------------------------- human control
\* human intervention after a pause: the feedback goes to the developer, the
\* rejection count is reset, the loop goes on
\* the human intervention applies to a paused project
ResumeApplies ==
    /\ pc = "waiting_human" /\ pending = NoPending
    /\ state.status = "paused"
    /\ Cur # NoMilestone
    /\ milestones[Cur].status = "in_progress"

Resume ==
    /\ ResumeApplies
    /\ milestones' = [milestones EXCEPT ![Cur].consecutive_rejections = 0]
    /\ pending' = StateWrite(WithStatus(state, "awake"),
                             "round_start", "resumed")
    /\ lastEvent' = "resume"
    /\ UNCHANGED <<state, order, pc, now, mainHead, tags, config, sessions, branches>>
    /\ UNCHANGED <<registryVars, busVars>>

\* pause applies to a project that iterates
PauseApplies == InRound

\* control API pause: the round in flight is abandoned, the agent sessions
\* are closed, then the project is paused
UserPause ==
    /\ PauseApplies
    /\ sessions' = StopSessions(sessions)
    /\ state' = WithStatus(state, "paused")
    /\ pc' = "waiting_human"
    /\ lastEvent' = "user_pause"
    /\ UNCHANGED <<milestones, order, pending, now,
                   mainHead, tags, config, branches>>
    /\ UNCHANGED <<registryVars, busVars>>

\* cancel applies to the in_progress milestone of an active project
CancelApplies ==
    /\ pc \in RoundPhases \cup {"round_start", "waiting_human", "quota_wait"}
    /\ pending = NoPending
    /\ state.status \in ActiveStatus
    /\ Cur # NoMilestone
    /\ milestones[Cur].status = "in_progress"

\* the user cancels the in_progress milestone: the wait of the round in
\* flight is cancelled and the agent sessions are closed first
CancelRequest ==
    /\ CancelApplies
    /\ sessions' = StopSessions(sessions)
    /\ pc' = "cancelling"
    /\ lastEvent' = "cancel_requested"
    /\ UNCHANGED <<state, milestones, order, pending, now, mainHead, tags,
                   config, branches>>
    /\ UNCHANGED <<registryVars, busVars>>

\* a plausible slip: the branch is left where the developer's commits put it
ResetToBaseSkipped(b) == b

\* git reset of milestone/{id} to the base commit recorded at its creation
ResetToBase(b) == IF b = "none" THEN b ELSE "base"

\* cancel of the in_progress milestone: branch rolled back, milestone
\* cancelled, then state.json sleeping / current_milestone null
CancelInProgress ==
    /\ pc = "cancelling" /\ pending = NoPending
    /\ state.status \in ActiveStatus
    /\ Cur # NoMilestone
    /\ milestones[Cur].status = "in_progress"
    /\ branches' = [branches EXCEPT ![Cur] = ResetToBase(@)]
    /\ milestones' = [milestones EXCEPT ![Cur].status = "cancelled"]
    /\ pending' = StateWrite([WithStatus(state, "sleeping") EXCEPT !.current_milestone = NoMilestone],
                             "idle", "milestone_cancelled")
    /\ lastEvent' = "cancel"
    /\ UNCHANGED <<state, order, pc, now, mainHead, tags, config, sessions>>
    /\ UNCHANGED <<registryVars, busVars>>

\* cancel of a milestone that waits for the human acceptance
CancelReviewApplies(m) ==
    /\ pc # "down" /\ pending = NoPending
    /\ milestones[m].status = "awaiting_review"

\* the user cancels a milestone awaiting review: archived, no rollback
CancelAwaitingReview(m) ==
    /\ CancelReviewApplies(m)
    /\ milestones' = [milestones EXCEPT ![m].status = "cancelled"]
    /\ lastEvent' = "cancel"
    /\ UNCHANGED <<state, order, pending, pc, now,
                   mainHead, tags, config, sessions, branches>>
    /\ UNCHANGED <<registryVars, busVars>>

\* a plausible slip: Accept is also taken for a milestone already completed
ApproveAppliesToCompleted(m) ==
    /\ pc = "idle" /\ pending = NoPending
    /\ state.status = "sleeping"
    /\ milestones[m].status \in {"awaiting_review", "completed"}

\* the acceptance panel is there for a milestone awaiting review
ApproveApplies(m) ==
    /\ pc = "idle" /\ pending = NoPending
    /\ state.status = "sleeping"
    /\ milestones[m].status = "awaiting_review"

\* human acceptance, Accept: the merge + tag flow is triggered, the status
\* becomes completed
ApproveAwaitingReview(m, res) ==
    /\ ApproveApplies(m)
    /\ milestones' = [milestones EXCEPT ![m].status = "completed"]
    /\ mainHead' = MergedHead(mainHead, res)
    /\ tags' = TagsAfter(tags, m, res)
    /\ lastEvent' = IF res = "ok" THEN "approved" ELSE res
    /\ UNCHANGED <<state, order, pending, pc, now, config, sessions, branches>>
    /\ UNCHANGED <<registryVars, busVars>>

\* human acceptance, Reject: the feedback goes to the developer, the loop
\* starts again with the rejection count reset
RejectAwaitingReview(m) ==
    /\ pc = "idle" /\ pending = NoPending
    /\ state.status = "sleeping"
    /\ milestones[m].status = "awaiting_review"
    /\ milestones' = [milestones EXCEPT ![m].status = "in_progress",
                                        ![m].consecutive_rejections = 0]
    /\ pending' = StateWrite([WithStatus(state, "awake") EXCEPT !.current_milestone = m],
                             "round_start", "review_rejected")
    /\ lastEvent' = "review_reject"
    /\ UNCHANGED <<state, order, pc, now, mainHead, tags, config, sessions, branches>>
    /\ UNCHANGED <<registryVars, busVars>>

\* ---------------------------------------------------------------- errors
\* persistence_io / corrupt_state met by the iteration engine while it owns the
\* project: the round in flight is abandoned with its sessions, the project is
\* forced to paused
ForcedPause(kind) ==
    /\ pc # "down" /\ pending = NoPending
    /\ state.status \in {"awake", "rate_limited"}
    /\ state' = WithStatus(state, "paused")
    /\ pc' = "waiting_human"
    /\ lastEvent' = kind
    /\ sessions' = StopSessions(sessions)
    /\ UNCHANGED <<milestones, order, pending, now,
                   mainHead, tags, config, branches>>
    /\ UNCHANGED <<registryVars, busVars>>

\* an unrecoverable error is met while the milestone iterates (an agent
\* process crashed, a file is damaged): the round is given up and both agent
\* processes are stopped
FatalError ==
    /\ InRound
    /\ sessions' = StopSessions(sessions)
    /\ pc' = "rolling_back"
    /\ lastEvent' = "fatal_error"
    /\ UNCHANGED <<state, milestones, order, pending, now, mainHead, tags,
                   config, branches>>
    /\ UNCHANGED <<registryVars, busVars>>

\* rollback: the milestone branch is reset to its base commit, the milestone
\* becomes failed, main is not touched; state.json becomes sleeping
Rollback ==
    /\ pc = "rolling_back" /\ pending = NoPending
    /\ state.status = "awake"
    /\ Cur \in DOMAIN milestones
    /\ milestones[Cur].status = "in_progress"
    /\ branches' = [branches EXCEPT ![Cur] = ResetToBase(@)]
    /\ milestones' = [milestones EXCEPT ![Cur].status = "failed"]
    /\ pending' = StateWrite([WithStatus(state, "sleeping") EXCEPT !.current_milestone = NoMilestone],
                             "idle", "milestone_failed")
    /\ lastEvent' = "rollback"
    /\ UNCHANGED <<state, order, pc, now, mainHead, tags, config, sessions>>
    /\ UNCHANGED <<registryVars, busVars>>

\* --------------------------------------------------------- crash and restart
\* the application dies: everything in memory is lost, the files stay
Crash ==
    /\ pc # "down"
    /\ pc' = "down"
    /\ pending' = NoPending
    /\ lastEvent' = "none"
    /\ sessions' = CloseAll
    /\ UNCHANGED <<state, milestones, order, now, mainHead, tags, config, branches>>
    /\ UNCHANGED <<registryVars, busVars>>

\* a plausible slip: the restart retries at once, whatever the reset time
KeepWaitingIgnoresResetTime(st) == FALSE

\* restart, rate_limited and the reset time not reached: keep waiting
KeepWaiting(st) == st.status = "rate_limited" /\ ~TimerDue(st)

\* restart with an in_progress milestone to recover
RecoverableIn(st, ms) ==
    /\ st.status \in {"awake", "rate_limited"}
    /\ st.current_milestone # NoMilestone
    /\ ms[st.current_milestone].status = "in_progress"

Recoverable == RecoverableIn(state, milestones)

\* which way the restart goes
RecoveryCase(st, ms) ==
    IF KeepWaiting(st) THEN "wait"
    ELSE IF st.status = "paused" THEN "paused"
    ELSE IF RecoverableIn(st, ms) THEN "recover"
    ELSE "check"

\* state.json after the restart
RecoveredState(st, ms) ==
    CASE RecoveryCase(st, ms) = "wait" -> st
      [] RecoveryCase(st, ms) = "paused" -> st
      [] RecoveryCase(st, ms) = "recover" -> WithStatus(st, "awake")
      [] OTHER -> WithStatus(st, "checking")  \* the check run at application start

\* where the scheduler goes on after the restart
RecoveredPosition(st, ms) ==
    CASE RecoveryCase(st, ms) = "wait" -> "quota_wait"
      [] RecoveryCase(st, ms) = "paused" -> "waiting_human"
      [] RecoveryCase(st, ms) = "recover" -> "round_start"
      [] OTHER -> "idle"

\* a plausible slip: the round the restart interrupted is counted as rejected
RecoveredMilestoneCountsRejection(m) ==
    [m EXCEPT !.consecutive_rejections = @ + 1]

\* step 1 of the recovery: the milestone file is read, its counters go into
\* the recovery context as they are
RecoveredMilestone(m) == m

\* the milestone files after the restart
RecoveredMilestones(st, ms) ==
    IF RecoveryCase(st, ms) = "recover"
    THEN [ms EXCEPT ![st.current_milestone] = RecoveredMilestone(@)]
    ELSE ms

\* application start: restart recovery of an interrupted milestone (the agents
\* are relaunched with the recovery context when the next round starts), or
\* the check every start runs
Startup ==
    /\ pc = "down"
    /\ lastEvent' = "started"
    /\ state' = RecoveredState(state, milestones)
    /\ pc' = RecoveredPosition(state, milestones)
    /\ milestones' = RecoveredMilestones(state, milestones)
    /\ UNCHANGED <<order, pending, now, mainHead, tags,
                   config, sessions, branches>>
    /\ UNCHANGED <<registryVars, busVars>>

Next ==
    \/ CommitState
    \/ WakeTick
    \/ WakeNow
    \/ CheckingPickUp
    \/ CheckingNoReady
    \/ \E m \in DOMAIN milestones : MarkReady(m)
    \/ \E m \in DOMAIN milestones : UnmarkReady(m)
    \/ \E m \in DOMAIN milestones : DeleteMilestone(m)
    \/ StartRound
    \/ DeveloperReport
    \/ DeveloperAllComplete
    \/ AgentTimeout
    \/ AcceptorAccepted
    \/ AcceptorRejected
    \/ FinalAccepted
    \/ \E res \in GitResults : Finalization(res)
    \/ FinalRejected
    \/ \E d \in 0..MaxDelay : QuotaDetected(d)
    \/ QuotaTimerFire
    \/ Tick
    \/ Resume
    \/ UserPause
    \/ CancelRequest
    \/ CancelInProgress
    \/ \E m \in DOMAIN milestones : CancelAwaitingReview(m)
    \/ \E m \in DOMAIN milestones, res \in GitResults : ApproveAwaitingReview(m, res)
    \/ \E m \in DOMAIN milestones : RejectAwaitingReview(m)
    \/ \E kind \in {"persistence_io", "corrupt_state"} : ForcedPause(kind)
    \/ FatalError
    \/ Rollback
    \/ Crash
    \/ Startup

Spec == Init /\ [][Next]_vars

\* ------------------------------------------------- the check of the scheduler
\* The checking phase over a list of several milestones: the project sleeps,
\* its milestones are in any status the list page shows outside an iteration,
\* and order.json holds any ordering of ids, stale ones included.
CheckIds == {"m1", "m2"}
StaleId == "gone"
OrderIds == CheckIds \cup {StaleId}

CheckOrders ==
    {<<>>} \cup { <<a>> : a \in OrderIds }
           \cup { <<p[1], p[2]>> : p \in { q \in OrderIds \X OrderIds : q[1] # q[2] } }
           \cup { <<p[1], p[2], p[3]>> :
                    p \in { q \in OrderIds \X OrderIds \X OrderIds :
                               q[1] # q[2] /\ q[1] # q[3] /\ q[2] # q[3] } }

\* a milestone file outside an iteration
RestingMilestone(st) ==
    [NewMilestone(FALSE) EXCEPT !.status = st,
                                !.base_commit = IF st \in {"draft", "ready"} THEN NoTime ELSE 1]

InitCheck ==
    /\ state = InitialState
    /\ \E D \in SUBSET CheckIds :
         \E st \in [D -> {"draft", "ready", "completed", "cancelled"}] :
            /\ milestones = [m \in D |-> RestingMilestone(st[m])]
            /\ tags = { m \in D : st[m] = "completed" }
            /\ branches = [m \in CheckIds |->
                              IF m \in D /\ st[m] \in {"completed", "cancelled"}
                              THEN "base" ELSE "none"]
    /\ order \in CheckOrders
    /\ pending = NoPending
    /\ pc = "idle"
    /\ now = 0
    /\ mainHead = 1
    /\ lastEvent = "none"
    /\ config = [max_iterations_per_milestone |-> MaxIterations]
    /\ sessions = CloseAll
    /\ RegistryAtRest
    /\ BusAtRest

NextCheck ==
    \/ WakeTick
    \/ WakeNow
    \/ CheckingPickUp
    \/ CheckingNoReady
    \/ CommitState

SpecCheck == InitCheck /\ [][NextCheck]_vars

\* ------------------------------------------------ the application registry
\* The registry of managed projects: electron/main/store.ts keeps it in
\* userData/config.json, electron/main/ipc.ts serves the renderer's calls on
\* it, and the renderer's ProjectsProvider mirrors the list.  One main
\* process runs at a time; its handlers run to completion one after another,
\* except where a handler awaits (the directory dialog of add-project).
MaxAdds == 3        \* ids handed out by randomUUID() in a run
MaxDialogs == 2     \* directory dialogs open at the same time
MaxInFlight == 2    \* messages to the renderer not yet delivered

\* directories the user can choose in the dialog
Paths == {"/w/app", "/x/lib"}
\* path.basename
Basename(p) == IF p = "/w/app" THEN "app" ELSE "lib"

\* the Project record addProject builds (addedAt, a wall-clock stamp no
\* operation reads, is left out)
NewProject(id, p) ==
    [id |-> id, path |-> p, name |-> Basename(p), status |-> "sleeping",
     currentMilestone |-> "null", round |-> 0, nextWakeTime |-> "null"]

NoProject == NewProject(0, "")

\* JSON text as the sequence of its pieces: the opening of the object and of
\* its projects array, one piece per array element, the closing
OpenPiece == [tok |-> "open", value |-> NoProject]
ClosePiece == [tok |-> "close", value |-> NoProject]
ProjectPiece(pr) == [tok |-> "project", value |-> pr]

\* JSON.stringify(config, null, 2)
Stringify(cfg) ==
    <<OpenPiece>>
      \o [i \in 1..Len(cfg.projects) |-> ProjectPiece(cfg.projects[i])]
      \o <<ClosePiece>>

\* JSON.parse succeeds on a complete text only
WellFormed(text) ==
    /\ Len(text) >= 2
    /\ text[1].tok = "open"
    /\ text[Len(text)].tok = "close"
    /\ \A i \in 2..(Len(text) - 1) : text[i].tok = "project"

\* JSON.parse of a complete text
Parse(text) == [projects |-> [i \in 1..(Len(text) - 2) |-> text[i + 1].value]]

EmptyConfig == [projects |-> <<>>]

\* loadConfig: no file, or a file JSON.parse throws on, reads as no projects
loadConfig(file) ==
    IF ~file.exists THEN EmptyConfig
    ELSE IF WellFormed(file.text) THEN Parse(file.text)
    ELSE EmptyConfig

\* fs.writeFileSync run to its end: the file holds the whole new text
Written(text) == [exists |-> TRUE, text |-> text]

\* fs.writeFileSync stopped on the way: the file was opened for writing,
\* which empties it, and holds the first k pieces of the new text
CutShort(text, k) == [exists |-> TRUE, text |-> SubSeq(text, 1, k)]

\* saveConfig
saveConfig(cfg) == Written(Stringify(cfg))

\* getProjects
getProjects(file) == loadConfig(file).projects

\* a plausible slip: the handler reads the registry before it awaits the
\* dialog and saves from that copy
ConfigReadBeforeDialog(seen, file) == [projects |-> seen]

\* addProject, line 38: the config the new project is pushed to is read when
\* addProject runs, after the dialog has returned
ConfigForAdd(seen, file) == loadConfig(file)

\* a plausible slip: the saved list holds the new project only
PushAlone(cfg, pr) == [projects |-> <<pr>>]

\* config.projects.push(project)
Push(cfg, pr) == [projects |-> Append(cfg.projects, pr)]

\* config.projects.filter((p) => p.id !== id)
FilterOut(cfg, id) ==
    [projects |-> SelectSeq(cfg.projects, LAMBDA pr : pr.id # id)]

\* randomUUID(): an id never handed out before
FreshId == uuids + 1

\* the config addProject saves
AddedConfig(seen, file, id, p) ==
    Push(ConfigForAdd(seen, file), NewProject(id, p))

\* addProject(projectPath), as the file it leaves
addProject(seen, file, id, p) == saveConfig(AddedConfig(seen, file, id, p))

\* the config removeProject saves
RemovedConfig(file, id) == FilterOut(loadConfig(file), id)

\* removeProject(id), as the file it leaves
removeProject(file, id) == saveConfig(RemovedConfig(file, id))

\* a plausible slip: the message is built from the list read before the change
PayloadBeforeChange(before, after) == before

\* the payload of projects-updated: getProjects() called after the change
Payload(before, after) == after

WithoutDialog(i) == SubSeq(dialogs, 1, i - 1) \o SubSeq(dialogs, i + 1, Len(dialogs))

\* the memory of the main process and of the renderer is gone
ProcessGone ==
    /\ app' = "down"
    /\ dialogs' = <<>>
    /\ channel' = <<>>
    /\ rendererProjects' = <<>>
    /\ fetch' = "none"
    /\ trayProjects' = <<>>

\* app.whenReady: the window is created and loads the renderer, the tray is
\* built from getProjects(), the handlers are installed; the renderer mounts
\* the ProjectsProvider, which calls get-projects
AppReady ==
    /\ app = "down"
    /\ app' = "up"
    /\ trayProjects' = getProjects(configFile)
    /\ fetch' = "requested"
    /\ rendererProjects' = <<>>
    /\ channel' = <<>>
    /\ dialogs' = <<>>
    /\ UNCHANGED <<configFile, uuids>>
    /\ UNCHANGED <<engineVars, busVars>>

\* ipcMain.handle('get-projects'): the reply travels to the renderer
HandleGetProjects ==
    /\ app = "up"
    /\ fetch = "requested"
    /\ fetch' = "answered"
    /\ channel' = Append(channel, getProjects(configFile))
    /\ UNCHANGED <<configFile, uuids, dialogs, rendererProjects, trayProjects, app>>
    /\ UNCHANGED <<engineVars, busVars>>

\* the renderer takes the next message: setProjects
Deliver ==
    /\ app = "up"
    /\ channel # <<>>
    /\ rendererProjects' = Head(channel)
    /\ channel' = Tail(channel)
    /\ UNCHANGED <<configFile, uuids, dialogs, fetch, trayProjects, app>>
    /\ UNCHANGED <<engineVars, busVars>>

\* add-project, up to its await: the directory dialog opens.  Each dialog is
\* recorded with the registry as it was then; the handler keeps no such copy.
OpenAddDialog ==
    /\ app = "up"
    /\ fetch = "answered"
    /\ Len(dialogs) < MaxDialogs
    /\ dialogs' = Append(dialogs, getProjects(configFile))
    /\ UNCHANGED <<configFile, uuids, channel, rendererProjects, fetch, trayProjects, app>>
    /\ UNCHANGED <<engineVars, busVars>>

\* add-project, dialog cancelled or closed without a path: returns null
CancelAddDialog(i) ==
    /\ app = "up"
    /\ i \in 1..Len(dialogs)
    /\ dialogs' = WithoutDialog(i)
    /\ UNCHANGED <<configFile, uuids, channel, rendererProjects, fetch, trayProjects, app>>
    /\ UNCHANGED <<engineVars, busVars>>

\* add-project, a directory chosen: addProject, the message, the tray
AddProjectChosen(i, p) ==
    /\ app = "up"
    /\ i \in 1..Len(dialogs)
    /\ uuids < MaxAdds
    /\ Len(channel) < MaxInFlight
    /\ configFile' = addProject(dialogs[i], configFile, FreshId, p)
    /\ uuids' = uuids + 1
    /\ channel' = Append(channel, Payload(getProjects(configFile), getProjects(configFile')))
    /\ trayProjects' = getProjects(configFile')
    /\ dialogs' = WithoutDialog(i)
    /\ UNCHANGED <<rendererProjects, fetch, app>>
    /\ UNCHANGED <<engineVars, busVars>>

\* remove-project: removeProject, the message, the tray
RemoveProject(id) ==
    /\ app = "up"
    /\ fetch = "answered"
    /\ Len(channel) < MaxInFlight
    /\ configFile' = removeProject(configFile, id)
    /\ channel' = Append(channel, Payload(getProjects(configFile), getProjects(configFile')))
    /\ trayProjects' = getProjects(configFile')
    /\ UNCHANGED <<uuids, dialogs, rendererProjects, fetch, app>>
    /\ UNCHANGED <<engineVars, busVars>>

\* add-project, a directory chosen, and the process dies while saveConfig
\* writes: the file is left with the first k pieces of the new text.  (A
\* writeFileSync that throws and leaves the process running is not modelled.)
AddProjectStopped(i, p, k) ==
    /\ app = "up"
    /\ i \in 1..Len(dialogs)
    /\ uuids < MaxAdds
    /\ k \in 0..(Len(Stringify(AddedConfig(dialogs[i], configFile, FreshId, p))) - 1)
    /\ configFile' = CutShort(Stringify(AddedConfig(dialogs[i], configFile, FreshId, p)), k)
    /\ uuids' = uuids + 1
    /\ ProcessGone
    /\ UNCHANGED <<engineVars, busVars>>

\* remove-project, and the process dies while saveConfig writes
RemoveProjectStopped(id, k) ==
    /\ app = "up"
    /\ fetch = "answered"
    /\ k \in 0..(Len(Stringify(RemovedConfig(configFile, id))) - 1)
    /\ configFile' = CutShort(Stringify(RemovedConfig(configFile, id)), k)
    /\ ProcessGone
    /\ UNCHANGED uuids
    /\ UNCHANGED <<engineVars, busVars>>

\* the application quits or is killed between two handlers
Exit ==
    /\ app = "up"
    /\ ProcessGone
    /\ UNCHANGED <<configFile, uuids>>
    /\ UNCHANGED <<engineVars, busVars>>

\* the engine of a project at rest, as the other specifications hold it
EngineAtRest ==
    /\ state = InitialState
    /\ milestones = [m \in MilestoneIds |-> NewMilestone(FALSE)]
    /\ order = <<>>
    /\ pending = NoPending
    /\ pc = "idle"
    /\ now = 0
    /\ mainHead = 1
    /\ tags = {}
    /\ lastEvent = "none"
    /\ config = [max_iterations_per_milestone |-> MaxIterations]
    /\ sessions = CloseAll
    /\ branches = [m \in MilestoneIds |-> "none"]

InitRegistry ==
    /\ RegistryAtRest
    /\ BusAtRest
    /\ EngineAtRest

NextRegistry ==
    \/ AppReady
    \/ HandleGetProjects
    \/ Deliver
    \/ OpenAddDialog
    \/ \E i \in 1..MaxDialogs : CancelAddDialog(i)
    \/ \E i \in 1..MaxDialogs, p \in Paths : AddProjectChosen(i, p)
    \/ \E id \in 1..MaxAdds : RemoveProject(id)
    \/ \E i \in 1..MaxDialogs, p \in Paths, k \in 0..(MaxAdds + 1) :
          AddProjectStopped(i, p, k)
    \/ \E id \in 1..MaxAdds, k \in 0..MaxAdds : RemoveProjectStopped(id, k)
    \/ Exit

SpecRegistry == InitRegistry /\ [][NextRegistry]_vars

\* ------------------------------------------------------------ the event bus
\* The bus as the specification words it: every event of a project goes to
\* every subscriber; a subscriber is a sequence consumed at the subscriber's
\* own pace; under back-pressure stream chunks may be dropped, any other
\* event stays buffered until it is consumed.
MaxEvents == 4        \* events emitted in a run
QueueCapacity == 2    \* events buffered for a subscriber before chunks are dropped

ChunkKind == "agent-stream-chunk"
\* of the kinds the bus carries, the stream chunk and two that must not be lost
EventKinds == {ChunkKind, "status-change", "verdict"}

Terminal(ev) == ev.kind # ChunkKind

\* index of the oldest chunk a queue holds, 0 when it holds none
OldestChunk(q) ==
    IF \E i \in 1..Len(q) : ~Terminal(q[i])
    THEN CHOOSE i \in 1..Len(q) :
            /\ ~Terminal(q[i])
            /\ \A j \in 1..(i - 1) : Terminal(q[j])
    ELSE 0

Without(q, i) == SubSeq(q, 1, i - 1) \o SubSeq(q, i + 1, Len(q))

\* a plausible slip: a full queue is a ring buffer, its oldest event goes
EnqueueDropsOldest(q, ev) ==
    IF Len(q) < QueueCapacity THEN Append(q, ev) ELSE Append(Tail(q), ev)

\* an event reaches a subscriber's queue: a full queue gives up its oldest
\* chunk; with no chunk to give up, a new chunk is dropped and any other event
\* is buffered all the same
Enqueue(q, ev) ==
    IF Len(q) < QueueCapacity THEN Append(q, ev)
    ELSE IF OldestChunk(q) # 0 THEN Append(Without(q, OldestChunk(q)), ev)
    ELSE IF Terminal(ev) THEN Append(q, ev)
    ELSE q

\* the engine emits an event of the project
Emit(kind) ==
    /\ Len(emitted) < MaxEvents
    /\ LET ev == [seq |-> Len(emitted) + 1, kind |-> kind]
       IN  /\ emitted' = Append(emitted, ev)
           /\ queues' = [sub \in Subscribers |-> Enqueue(queues[sub], ev)]
    /\ UNCHANGED delivered
    /\ UNCHANGED <<engineVars, registryVars>>

\* a subscriber consumes its next event
Consume(sub) ==
    /\ queues[sub] # <<>>
    /\ delivered' = [delivered EXCEPT ![sub] = Append(@, Head(queues[sub]))]
    /\ queues' = [queues EXCEPT ![sub] = Tail(@)]
    /\ UNCHANGED emitted
    /\ UNCHANGED <<engineVars, registryVars>>

InitBus ==
    /\ BusAtRest
    /\ RegistryAtRest
    /\ EngineAtRest

NextBus ==
    \/ \E kind \in EventKinds : Emit(kind)
    \/ \E sub \in Subscribers : Consume(sub)

SpecBus == InitBus /\ [][NextBus]_vars

\* ====================================================================== claims
\* The two files are observed between updates: while the second write of a
\* two-file update is pending the project lock is held by the writer.
Observable == pending = NoPending

Rejections(m) == milestones[m].consecutive_rejections
Iterations(m) == milestones[m].iteration_count
\* the milestones a step does not delete
Kept == DOMAIN milestones \cap DOMAIN milestones'

CurInProgress ==
    /\ Cur \in DOMAIN milestones
    /\ milestones[Cur].status = "in_progress"

\* C1: whenever the project is awake, paused or rate_limited, its
\* current_milestone names an existing milestone whose status is in_progress.
C1_ActiveHasInProgressMilestone ==
    (Observable /\ state.status \in ActiveStatus) => CurInProgress

\* C2: current_milestone is non-empty exactly when the project is awake, paused
\* or rate_limited; it is empty while sleeping or checking.
C2_CurrentMilestoneIffActive ==
    Observable => ((Cur # NoMilestone) <=> (state.status \in ActiveStatus))

\* the rows of the synchronisation table of state.json and milestone status
TableRows ==
    ({"awake", "rate_limited", "paused"} \X {"in_progress"})
    \cup ({"sleeping"} \X {"completed", "awaiting_review", "failed", "cancelled"})

\* C3: every pair (state.json status, status of the current milestone's file)
\* found on disk by an observer, also after a crash in the middle of an
\* update, is a row of the synchronisation table.
C3_ObservedPairInTable ==
    (Observable /\ Cur \in DOMAIN milestones)
        => <<state.status, milestones[Cur].status>> \in TableRows

\* C4: once rate_limited with reset time T, the project stays rate_limited with
\* the same T as long as the clock is before T, whatever timer tick, wake now,
\* pause, resume or crash and restart happens (a user cancel and an error
\* forcing the pause are not among the events of the claim).
C4_RateLimitedUntilReset ==
    [][ ( /\ state.status = "rate_limited"
          /\ CurInProgress
          /\ now' < state.rate_limit_reset_at
          /\ ~(\E kind \in {"persistence_io", "corrupt_state"} : ForcedPause(kind)) )
        => ( /\ state'.status = "rate_limited"
             /\ state'.rate_limit_reset_at = state.rate_limit_reset_at ) ]_vars

\* C4 witness: the application was restarted while rate_limited, time has
\* passed, the reset time is still ahead and the timer is armed again.
C4_Witness ==
    /\ state.status = "rate_limited"
    /\ lastEvent = "started"
    /\ pc = "quota_wait"
    /\ 0 < now /\ now < state.rate_limit_reset_at

\* C5: when the reset time of a rate-limited milestone M is reached and the
\* scheduler has run the checking this triggers, the project is awake again on
\* M, still in_progress; it is not put to sleep (a forced pause aside).
C5_ResumesInterruptedMilestone ==
    [][ ( /\ lastEvent = "quota_restored"
          /\ state.status = "checking"
          /\ CurInProgress
          /\ state'.status \notin {"checking", "paused"} )
        => ( /\ state'.status = "awake"
             /\ state'.current_milestone = Cur
             /\ milestones'[Cur].status = "in_progress" ) ]_vars

\* C6: the step that handles a quota event leaves the milestone file as it is
\* (in_progress, consecutive_rejections, iteration_count), and no counter
\* moves while the project is rate_limited.
C6_QuotaKeepsCounters ==
    [][ (state'.status = "rate_limited" \/ state.status = "rate_limited")
        => /\ \A m \in Kept :
                /\ Rejections(m)' = Rejections(m)
                /\ Iterations(m)' = Iterations(m)
           /\ (state.status = "awake" =>
                 /\ milestones'[Cur].status = "in_progress"
                 /\ state'.current_milestone = Cur) ]_vars

\* C6 witness: a quota event met with two rejections counted: one more would
\* have reached the threshold.
C6_Witness ==
    /\ state.status = "rate_limited"
    /\ lastEvent = "quota"
    /\ CurInProgress
    /\ Rejections(Cur) = RejectionThreshold - 1

\* C7: consecutive_rejections never exceeds 3, and a milestone in progress
\* with 3 consecutive rejections has its project paused, waiting for a human,
\* with no prompt in flight and no tag.
C7_PausedAtThreshold ==
    \A m \in DOMAIN milestones :
        /\ Rejections(m) <= RejectionThreshold
        /\ ( /\ Observable /\ pc # "down"
             /\ Cur = m /\ milestones[m].status = "in_progress"
             /\ Rejections(m) >= RejectionThreshold )
           => ( /\ state.status = "paused"
                /\ pc = "waiting_human"
                /\ m \notin tags )

\* the step that processes a per-round ACCEPTED verdict
AcceptedStep ==
    /\ pc = "acceptor" /\ lastEvent # "accepted" /\ lastEvent' = "accepted"

\* C8: processing a per-round ACCEPTED sets consecutive_rejections to 0 and
\* adds exactly 1 to iteration_count; no other step changes iteration_count,
\* and no step decreases it.
C8_AcceptedCountsOneRound ==
    [][ /\ \A m \in Kept :
              /\ Iterations(m)' >= Iterations(m)
              /\ (Iterations(m)' # Iterations(m) => AcceptedStep /\ m = Cur)
        /\ AcceptedStep =>
              /\ Rejections(Cur)' = 0
              /\ Iterations(Cur)' = Iterations(Cur) + 1 ]_vars

\* C8 witness: an ACCEPTED verdict has been processed and the next round runs.
C8_Witness ==
    /\ lastEvent = "accepted"
    /\ pc = "developer"
    /\ CurInProgress
    /\ Iterations(Cur) = 1 /\ Rejections(Cur) = 0

\* the step that processes a REJECTED verdict of the final review
FinalRejectedStep ==
    /\ pc = "final_review" /\ lastEvent' = "final_rejected"

\* C9: a REJECTED verdict of the final review changes no counter, leaves the
\* project awake and sends the missing criteria to the developer in the next
\* prompt of the main loop.
C9_FinalRejectionNotCounted ==
    [][ FinalRejectedStep =>
          /\ milestones' = milestones
          /\ state' = state /\ state.status = "awake"
          /\ pending' = NoPending
          /\ pc' = "developer"
          /\ DeveloperFeedback' = "missing_criteria" ]_vars

\* C9 witness: the final review rejected with two rejections counted, and the
\* loop goes on.
C9_Witness ==
    /\ lastEvent = "final_rejected"
    /\ pc = "developer"
    /\ state.status = "awake"
    /\ CurInProgress
    /\ Rejections(Cur) = RejectionThreshold - 1

\* the step that handles the timeout of an agent call
TimeoutStep ==
    /\ pc \in RoundPhases /\ Observable /\ lastEvent' = "timeout"
    /\ milestones' # milestones

\* C10: a round whose agent does not answer in time counts one rejection;
\* below the threshold the next round starts, at the threshold the project
\* is paused.
C10_TimeoutRejectsAndPauses ==
    [][ TimeoutStep =>
          /\ Rejections(Cur)' = Rejections(Cur) + 1
          /\ IF Rejections(Cur)' >= RejectionThreshold
             THEN \/ state'.status = "paused"
                  \/ (pending' # NoPending /\ pending'.state.status = "paused")
             ELSE pc' = "developer" /\ state'.status = "awake" ]_vars

\* the agents that have a prompt in flight whose reply the engine waits for
BusyAgents == { a \in AgentRoles : sessions[a] = "busy" }

VersionControlStep ==
    \/ CheckingPickUp
    \/ \E res \in GitResults : Finalization(res)
    \/ \E m \in DOMAIN milestones, res \in GitResults : ApproveAwaitingReview(m, res)
    \/ CancelInProgress
    \/ Rollback
    \/ Startup

\* a step that moves main, a tag, or a milestone branch otherwise than by a
\* commit of the developer
RepositoryMoved ==
    \/ mainHead' # mainHead
    \/ tags' # tags
    \/ \E m \in DOMAIN branches : branches'[m] # branches[m] /\ branches'[m] # "ahead"

LifecycleEdges ==
    { <<"draft", "ready">>, <<"ready", "draft">>, <<"ready", "in_progress">>,
      <<"in_progress", "awaiting_review">>, <<"in_progress", "completed">>,
      <<"in_progress", "cancelled">>, <<"in_progress", "failed">>,
      <<"awaiting_review", "completed">>, <<"awaiting_review", "in_progress">>,
      <<"awaiting_review", "cancelled">> }

\* C13: a milestone changes its status only along an edge of the status
\* flow, so that completed, cancelled and failed are final, and only a draft
\* or ready milestone is ever deleted.
C13_StatusFollowsLifecycle ==
    [][ \A m \in DOMAIN milestones :
          IF m \in DOMAIN milestones'
          THEN \/ milestones'[m].status = milestones[m].status
               \/ <<milestones[m].status, milestones'[m].status>> \in LifecycleEdges
          ELSE milestones[m].status \in {"draft", "ready"} ]_vars

\* C13 witness: a milestone has been deleted, another step of the list page
\* having moved it between draft and ready before.
C13_Witness ==
    /\ DOMAIN milestones = {}
    /\ order # <<>>
    /\ state.status = "checking"

\* position i of order.json names a milestone that exists and is ready
ReadyAt(i) ==
    /\ order[i] \in DOMAIN milestones
    /\ milestones[order[i]].status = "ready"

\* C14: a checking phase takes the first id of order.json whose milestone is
\* ready, passing over ids of milestones that are not ready or do not exist;
\* that milestone becomes in_progress and the project awake on it, and no
\* other milestone changes. With no such id the project goes back to
\* sleeping and no milestone changes.
C14_ChecksPickFirstReady ==
    [][ /\ (state.status = "checking" /\ pending = NoPending) =>
              IF \E i \in 1..Len(order) : ReadyAt(i)
              THEN \E i \in 1..Len(order) :
                      /\ ReadyAt(i)
                      /\ \A j \in 1..(i - 1) : ~ReadyAt(j)
                      /\ milestones'[order[i]].status = "in_progress"
                      /\ \A k \in DOMAIN milestones \ {order[i]} :
                             milestones'[k] = milestones[k]
                      /\ pending' # NoPending
                      /\ pending'.state.status = "awake"
                      /\ pending'.state.current_milestone = order[i]
              ELSE /\ state'.status = "sleeping"
                   /\ milestones' = milestones
                   /\ pending' = NoPending
        /\ (state.status = "checking" /\ pending # NoPending) =>
              (state' = pending.state /\ milestones' = milestones) ]_vars

\* C14 witness: the project is awake on the second id of order.json, the
\* first one having been passed over.
C14_Witness ==
    /\ state.status = "awake"
    /\ Len(order) >= 2
    /\ Cur = order[2]
    /\ milestones[Cur].status = "in_progress"

\* C15: for a milestone marked requires_human_review the final ACCEPTED
\* makes the milestone awaiting_review and the project sleeping without any
\* merge or tag; main and the tag milestone-{id} move only in the step of the
\* human Accept, and an Accept whose merge + tag flow succeeds leaves the
\* milestone completed, merged and tagged.
C15_ReviewBeforeMerge ==
    [][ \A m \in Kept :
          milestones[m].requires_human_review =>
            /\ (milestones[m].status \in {"draft", "ready", "in_progress"}) =>
                  /\ m \notin tags'
                  /\ milestones'[m].status # "completed"
                  /\ (milestones[m].status = "in_progress" => mainHead' = mainHead)
            /\ (milestones[m].status = "in_progress"
                 /\ milestones'[m].status # "in_progress"
                 /\ lastEvent' = "awaiting_review") =>
                  /\ milestones'[m].status = "awaiting_review"
                  /\ pending' # NoPending
                  /\ pending'.state.status = "sleeping"
                  /\ pending'.state.current_milestone = NoMilestone
            /\ (milestones[m].status = "awaiting_review" /\ lastEvent' = "approved") =>
                  /\ milestones'[m].status = "completed"
                  /\ m \in tags'
                  /\ mainHead' = mainHead + 1 ]_vars

\* C15 witness: a milestone that needed the human acceptance was accepted by
\* the final review, waited, and is completed and tagged after the Accept.
C15_Witness ==
    /\ lastEvent = "approved"
    /\ \E m \in DOMAIN milestones :
          /\ milestones[m].requires_human_review
          /\ milestones[m].status = "completed"
          /\ m \in tags
    /\ state.status = "sleeping"

\* C16: the head of main moves only in a step in which a milestone becomes
\* completed, and then by the one merge; a step that makes an in_progress
\* milestone cancelled or failed leaves main and the tags alone and leaves
\* the milestone branch at its base commit.
C16_MainMovesOnlyOnCompletion ==
    [][ /\ mainHead' # mainHead =>
              /\ mainHead' = mainHead + 1
              /\ \E m \in Kept : /\ milestones[m].status # "completed"
                                  /\ milestones'[m].status = "completed"
        /\ \A m \in Kept :
              (milestones[m].status = "in_progress"
               /\ milestones'[m].status \in {"cancelled", "failed"}) =>
                  /\ mainHead' = mainHead
                  /\ tags' = tags
                  /\ branches'[m] = "base" ]_vars

\* C16 witness: a milestone with an accepted round, hence with commits on its
\* branch, has failed and was rolled back; main is where it was.
C16_Witness ==
    \E m \in DOMAIN milestones :
        /\ milestones[m].status = "failed"
        /\ milestones[m].iteration_count >= 1
        /\ branches[m] = "base"
        /\ mainHead = milestones[m].base_commit

\* C17: a milestone is completed only with its merge and its tag done; when
\* the merge or the tag fails the milestone is in_progress and the project
\* is paused (or being written so), after the final ACCEPTED as after the
\* human Accept.
C17_FailedFinalizationPauses ==
    \A m \in DOMAIN milestones :
        /\ milestones[m].status = "completed" =>
              (m \in tags /\ mainHead > milestones[m].base_commit)
        /\ (lastEvent \in {"merge_failed", "tag_failed"} /\ pc # "down") =>
              /\ milestones[m].status = "in_progress"
              /\ \/ state.status = "paused"
                 \/ (pending # NoPending /\ pending.state.status = "paused")

\* C18: the cancel of an in_progress milestone writes the files only once
\* the agent sessions are closed; it leaves the milestone cancelled, its
\* branch at the base commit, main and the tags untouched, and the project
\* sleeping with no current milestone.
C18_CancelClosesThenRollsBack ==
    [][ /\ \A m \in Kept :
              (milestones[m].status = "in_progress"
               /\ milestones'[m].status = "cancelled") =>
                  /\ sessions = CloseAll /\ sessions' = CloseAll
                  /\ branches'[m] = "base"
                  /\ mainHead' = mainHead /\ tags' = tags
                  /\ pending' # NoPending
                  /\ pending'.state.status = "sleeping"
                  /\ pending'.state.current_milestone = NoMilestone
        /\ (pending # NoPending /\ pending.event = "milestone_cancelled"
             /\ state' # state) =>
                  /\ sessions = CloseAll /\ sessions' = CloseAll
                  /\ state'.status = "sleeping"
                  /\ state'.current_milestone = NoMilestone ]_vars

\* C18 witness: a milestone with an accepted round, hence with commits on its
\* branch, was cancelled while in progress and the cancel is through.
C18_Witness ==
    /\ lastEvent = "milestone_cancelled"
    /\ state.status = "sleeping" /\ Cur = NoMilestone
    /\ sessions = CloseAll
    /\ \E m \in DOMAIN milestones :
          /\ milestones[m].status = "cancelled"
          /\ milestones[m].iteration_count >= 1
          /\ branches[m] = "base"
          /\ mainHead = milestones[m].base_commit

\* the statuses of a milestone that has entered an iteration
StartedStatus == {"in_progress", "awaiting_review", "completed", "cancelled", "failed"}

\* C19: a milestone that is in_progress, awaiting_review, completed,
\* cancelled or failed has its base_commit recorded; base_commit is written
\* in the step that takes the milestone from ready to in_progress and in no
\* other step.
C19_BaseCommitRecorded ==
    [][ /\ \A m \in DOMAIN milestones' :
              milestones'[m].status \in StartedStatus =>
                  milestones'[m].base_commit # NoTime
        /\ \A m \in Kept :
              milestones'[m].base_commit # milestones[m].base_commit =>
                  /\ milestones[m].status = "ready"
                  /\ milestones'[m].status = "in_progress"
                  /\ milestones'[m].base_commit = mainHead ]_vars

\* C19 witness: a milestone sent back by the human review iterates again on
\* the base commit recorded when it was first picked up.
C19_Witness ==
    /\ lastEvent = "review_rejected"
    /\ CurInProgress
    /\ milestones[Cur].base_commit = mainHead
    /\ branches[Cur] = "ahead"

StartupStep == pc = "down" /\ pc' # "down"

Registry == getProjects(configFile)
Ids(list) == { list[n].id : n \in 1..Len(list) }
Range(list) == { list[n] : n \in 1..Len(list) }
\* config.json exists and JSON.parse throws on it
Corrupt(file) == file.exists /\ ~WellFormed(file.text)

\* a handler that ran to its end: add-project with a directory chosen,
\* remove-project, add-project with the dialog cancelled
AddDone == app = "up" /\ app' = "up" /\ uuids' = uuids + 1
RemoveDone ==
    /\ app = "up" /\ app' = "up" /\ uuids' = uuids
    /\ fetch = "answered" /\ fetch' = "answered"
    /\ dialogs' = dialogs
    /\ rendererProjects' = rendererProjects
    /\ Len(channel') >= Len(channel)
CancelDone ==
    app = "up" /\ app' = "up" /\ uuids' = uuids /\ Len(dialogs') < Len(dialogs)

\* C22: registering the same directory twice in a row leaves the registry as
\* it is after the first registration, and removing the same id twice in a
\* row leaves it as it is after the first removal.
C22_RepeatedCallsChangeNothing ==
    app = "up" =>
      /\ \A p \in Paths :
           LET once == addProject(Registry, configFile, FreshId, p)
               twice == addProject(getProjects(once), once, FreshId + 1, p)
           IN  getProjects(twice) = getProjects(once)
      /\ \A id \in 1..MaxAdds :
           LET once == removeProject(configFile, id)
           IN  getProjects(removeProject(once, id)) = getProjects(once)

\* C25: a config.json that is not valid JSON is not read as an empty
\* registry, so no write replaces its content by data built on the empty
\* default.
C25_CorruptFileIsKept ==
    [][ Corrupt(configFile) => configFile' = configFile ]_vars

\* a call of removeProject(id), run to its end or cut short
RemoveCalled(id) ==
    /\ uuids' = uuids
    /\ \/ configFile' = removeProject(configFile, id)
       \/ \E k \in 0..(Len(Stringify(RemovedConfig(configFile, id))) - 1) :
             configFile' = CutShort(Stringify(RemovedConfig(configFile, id)), k)

\* C26: what saveConfig writes, loadConfig reads back equal; and a
\* registration the registry holds is returned by getProjects in every later
\* state, restarts included, until removeProject is called with its id.
C26_RegistrationsPersist ==
    [][ /\ loadConfig(saveConfig(loadConfig(configFile))) = loadConfig(configFile)
        /\ \A n \in 1..Len(Registry) :
              \/ Registry[n] \in Range(getProjects(configFile'))
              \/ RemoveCalled(Registry[n].id) ]_vars

\* C27: whatever happens during a write, config.json afterwards holds the
\* whole previous content or the whole new content.
C27_WritesAreAtomic ==
    [][ configFile' = configFile \/ WellFormed(configFile'.text) ]_vars

C29_NoLostRegistryUpdate ==
    [][ app' = "up" =>
          /\ AddDone =>
                \E p \in Paths :
                   getProjects(configFile') = Append(Registry, NewProject(uuids + 1, p))
          /\ RemoveDone =>
                \E id \in 1..MaxAdds :
                   getProjects(configFile') = SelectSeq(Registry, LAMBDA pr : pr.id # id)
          /\ (app = "up" /\ ~AddDone /\ ~RemoveDone) =>
                getProjects(configFile') = Registry ]_vars

\* C29 witness: two dialogs were opened on the empty registry, one of them has
\* added its project, then a third dialog was opened; the oldest dialog
\* still waits, opened on a registry that has changed since.
C29_Witness ==
    /\ app = "up"
    /\ Len(dialogs) = 2
    /\ dialogs[1] = <<>>
    /\ dialogs[2] = Registry
    /\ Len(Registry) = 1

\* C30: addProject appends one registration with an id no registration has,
\* status sleeping, no current milestone, round 0, and keeps the others in
\* place; removeProject takes out the registrations with the given id and
\* nothing else; the ids of the registry are pairwise distinct.
C30_AddAndRemoveFrame ==
    [][ /\ AddDone =>
              LET after == getProjects(configFile')
                  new == after[Len(after)]
              IN  /\ Len(after) = Len(Registry) + 1
                  /\ SubSeq(after, 1, Len(Registry)) = Registry
                  /\ new.id \notin Ids(Registry)
                  /\ new.status = "sleeping"
                  /\ new.currentMilestone = "null"
                  /\ new.round = 0
        /\ RemoveDone =>
              \E id \in 1..MaxAdds :
                 /\ getProjects(configFile') = SelectSeq(Registry, LAMBDA pr : pr.id # id)
                 /\ (id \notin Ids(Registry) => getProjects(configFile') = Registry)
        /\ Cardinality(Ids(getProjects(configFile'))) = Len(getProjects(configFile')) ]_vars

\* C30 witness: three projects were added and the second one removed.
C30_Witness ==
    /\ Len(Registry) = 2
    /\ Registry[1].id = 1
    /\ Registry[2].id = 3

\* ----------------------------------------------------------- event bus claims
\* what a subscriber has seen or will see: consumed, then buffered
Seen(sub) == delivered[sub] \o queues[sub]

\* C24: for each subscriber the events consumed and those still buffered for
\* it are events of the project in the order of their emission, none twice,
\* and every emitted event that is not a stream chunk is among them: only
\* stream chunks are ever missing.
C24_SubscriberSeesOrderedEvents ==
    \A sub \in Subscribers :
       /\ \A i \in 1..Len(Seen(sub)) :
             /\ Seen(sub)[i].seq \in 1..Len(emitted)
             /\ emitted[Seen(sub)[i].seq] = Seen(sub)[i]
       /\ \A i, j \in 1..Len(Seen(sub)) :
             i < j => Seen(sub)[i].seq < Seen(sub)[j].seq
       /\ \A n \in 1..Len(emitted) :
             Terminal(emitted[n]) => \E i \in 1..Len(Seen(sub)) : Seen(sub)[i] = emitted[n]

\* C24 witness: a subscriber that consumed nothing while four events were
\* emitted lost a stream chunk and then consumed the events emitted before
\* and after it.
C24_Witness ==
    \E sub \in Subscribers :
       /\ Len(delivered[sub]) >= 2
       /\ \E n \in 1..Len(emitted) :
             /\ ~Terminal(emitted[n])
             /\ \A i \in 1..Len(Seen(sub)) : Seen(sub)[i] # emitted[n]
             /\ \E i, j \in 1..Len(delivered[sub]) :
                   delivered[sub][i].seq < n /\ n < delivered[sub][j].seq
====
